---- MODULE Spec2Model ----
(***************************************************************************)
(* State-machine model of the stock analysis engine of danaelbaba.py and   *)
(* of the handlers of app.py that call it.                                 *)
(*                                                                         *)
(* A DataFrame is an unordered relation: df is a set of rows.  Where the   *)
(* result of a Spark operator depends on the physical order of the rows    *)
(* (first/last in an aggregation, limit after a sort with ties) the order  *)
(* is an input of the call, enc, chosen among all orders of the rows: the  *)
(* storage order of the file on one partition, the arrival order after a   *)
(* shuffle.                                                                *)
(*                                                                         *)
(* Prices are integers; a DoubleType result is the exact rational          *)
(* [isNull, num, den] it denotes (rounding is not modelled).  A Date is    *)
(* Spark's DateType: the number of days since 1970-01-01.                  *)
(***************************************************************************)
EXTENDS Integers, Sequences, FiniteSets, TLC

VARIABLES df, op, args, out

vars == <<df, op, args, out>>

\* ------------------------------------------------------------------ bounds

\* Rows of an input dataset.
MaxRows == 3

\* Largest Close / Open value of an input row (values are 0..MaxPrice).
MaxPrice == 2

\* Largest window length passed to calculate_moving_average.
MaxPoints == 2

\* --------------------------------------------------------------- calendar

\* Days since 1970-01-01 of the civil date y-m-d (proleptic Gregorian).
DaysFromCivil(y, m, d) ==
    LET yy  == IF m <= 2 THEN y - 1 ELSE y
        era == yy \div 400
        yoe == yy - era * 400
        mp  == IF m > 2 THEN m - 3 ELSE m + 9
        doy == (153 * mp + 2) \div 5 + d - 1
        doe == yoe * 365 + yoe \div 4 - yoe \div 100 + doy
    IN  era * 146097 + doe - 719468

\* The civil date [y, m, d] of a day number.
CivilFromDays(z) ==
    LET zz  == z + 719468
        era == zz \div 146097
        doe == zz - era * 146097
        yoe == (doe - doe \div 1460 + doe \div 36524 - doe \div 146096) \div 365
        doy == doe - (365 * yoe + yoe \div 4 - yoe \div 100)
        mp  == (5 * doy + 2) \div 153
        d   == doy - (153 * mp + 2) \div 5 + 1
        m   == IF mp < 10 THEN mp + 3 ELSE mp - 9
        y   == yoe + era * 400
    IN  [y |-> IF m <= 2 THEN y + 1 ELSE y, m |-> m, d |-> d]

\* Day of the week, Monday = 0 ... Sunday = 6 (1970-01-01 was a Thursday).
DayOfWeek(date) == (date + 3) % 7

\* The Monday that starts the Monday-to-Sunday week of a Date.
MondayOf(date) == date - DayOfWeek(date)

\* The ISO 8601 week number of a Date: the week, counted within its year, of
\* the Thursday of the date's week.
IsoWeek(date) ==
    LET thursday == MondayOf(date) + 3
        jan1     == DaysFromCivil(CivilFromDays(thursday).y, 1, 1)
    IN  (thursday - jan1) \div 7 + 1

\* The dates of the inputs: trading days of one week, the last Monday of
\* 2024 (ISO week 1 of 2025) and a day of 2025.
Jan02 == DaysFromCivil(2024, 1, 2)

Jan03 == DaysFromCivil(2024, 1, 3)

Jan04 == DaysFromCivil(2024, 1, 4)

Dec30 == DaysFromCivil(2024, 12, 30)

Jan02_2025 == DaysFromCivil(2025, 1, 2)

WindowDates == {Jan02, Jan03, Jan04}

CorrDates == {Jan02, Jan03, Jan04, Dec30}

PeriodDates == {Jan02, Jan03, Dec30, Jan02_2025}

\* The calendar columns, tabulated once over the dates of the inputs.
Calendar ==
    [date \in WindowDates \cup PeriodDates \cup CorrDates |->
        [year |-> CivilFromDays(date).y, month |-> CivilFromDays(date).m,
         weekofyear |-> IsoWeek(date)]]

\* pyspark.sql.functions.year, month and weekofyear of a Date.
year(date) == Calendar[date].year

month(date) == Calendar[date].month

weekofyear(date) == Calendar[date].weekofyear

\* -------------------------------------------------------------- rationals

RECURSIVE Gcd(_, _)
Gcd(a, b) == IF b = 0 THEN a ELSE Gcd(b, a % b)

Abs(x) == IF x < 0 THEN -x ELSE x

\* SQL NULL of a DoubleType column.
Null == [isNull |-> TRUE, num |-> 0, den |-> 1]

\* The double n / d (d > 0) in lowest terms.
Val(n, d) ==
    LET g == Gcd(Abs(n), d)
    IN  [isNull |-> FALSE, num |-> n \div g, den |-> d \div g]

\* Spark's Divide in its default (non-ANSI) mode: NULL when an operand is
\* NULL or the divisor is 0.
Div(a, b) ==
    IF a.isNull \/ b.isNull \/ b.num = 0 THEN Null
    ELSE IF b.num > 0 THEN Val(a.num * b.den, a.den * b.num)
    ELSE Val(-(a.num * b.den), a.den * (-b.num))

Sub(a, b) ==
    IF a.isNull \/ b.isNull THEN Null
    ELSE Val(a.num * b.den - b.num * a.den, a.den * b.den)

Add(a, b) ==
    IF a.isNull \/ b.isNull THEN Null
    ELSE Val(a.num * b.den + b.num * a.den, a.den * b.den)

Mul(a, b) ==
    IF a.isNull \/ b.isNull THEN Null
    ELSE Val(a.num * b.num, a.den * b.den)

\* a >= b for two non-null doubles.
Geq(a, b) == a.num * b.den >= b.num * a.den

\* ----------------------------------------------------------------- inputs

\* The symbols of the dataset (two of the script's four).
Stocks == {"AAPL", "MSFT"}

Prices == 0 .. MaxPrice

\* The numeric columns an operation may be asked about.
Columns == {"Close", "Open"}

\* All orders (sequences without repetition) of the elements of a set.
Perms(S) ==
    {s \in [1 .. Cardinality(S) -> S] :
        \A i, j \in 1 .. Cardinality(S) : s[i] = s[j] => i = j}

\* PriceRecord: exactly one record per (symbol, date) pair, so a dataset is
\* a set of keys with the values of each.

\* The sets of at most MaxRows (symbol, date) pairs over the given dates.
KeySets(dates) ==
    {ks \in SUBSET (Stocks \X dates) : Cardinality(ks) <= MaxRows}

\* The sets of (symbol, date) pairs with at most MaxRows dates per symbol.
KeySetsPerStock(dates) ==
    {ks \in SUBSET (Stocks \X dates) :
        \A s \in Stocks : Cardinality({k \in ks : k[1] = s}) <= MaxRows}

\* The dataset with one row per key of ks, f giving its <<Close, Open>>.
Dataset(ks, f) ==
    {[Stock |-> k[1], Date |-> k[2], Close |-> f[k][1], Open |-> f[k][2]] :
        k \in ks}

\* ----------------------------------------------------------- window stage

\* window_spec without partitionBy("Stock"): all rows in (Date, Stock) order.
window_spec_unpartitioned(d, r) ==
    LET Before(y, x) ==
            \/ y.Date < x.Date
            \/ y.Date = x.Date /\ (y.Stock = x.Stock \/ y.Stock = "AAPL")
    IN  [k \in 1 .. Cardinality(d) |->
            CHOOSE x \in d : Cardinality({y \in d : Before(y, x)}) = k]

\* window_spec = Window.partitionBy("Stock").orderBy("Date"), for the row r
\* of d: the rows of r's symbol as a sequence in Date order.
window_spec(d, r) ==
    LET P == {x \in d : x.Stock = r.Stock}
    IN  [k \in 1 .. Cardinality(P) |->
            CHOOSE x \in P : Cardinality({y \in P : y.Date <= x.Date}) = k]

\* The position of row r in its window.
RowNumber(w, r) == CHOOSE k \in 1 .. Len(w) : w[k] = r

\* lag(column).over(w) at position k: the value one row back, or NULL.
lag(w, k, column) == IF k = 1 THEN Null ELSE Val(w[k - 1][column], 1)

RECURSIVE SumCol(_, _, _, _)
SumCol(w, column, lo, hi) ==
    IF lo > hi THEN 0 ELSE w[lo][column] + SumCol(w, column, lo + 1, hi)

Max(a, b) == IF a >= b THEN a ELSE b

Min(a, b) == IF a <= b THEN a ELSE b

\* mean_rowsBetween dividing by the full frame length: the rows missing
\* before the start of the partition count as zeros.
mean_rowsBetween_zero_padded(w, k, column, lower, upper) ==
    LET lo == Max(1, k + lower)
        hi == Min(Len(w), k + upper)
    IN  IF lo > hi THEN Null
        ELSE Val(SumCol(w, column, lo, hi), upper - lower + 1)

\* mean(column).over(w.rowsBetween(lower, upper)) at position k: the frame
\* is cut at the ends of the partition.
mean_rowsBetween(w, k, column, lower, upper) ==
    LET lo == Max(1, k + lower)
        hi == Min(Len(w), k + upper)
    IN  IF lo > hi THEN Null ELSE Val(SumCol(w, column, lo, hi), hi - lo + 1)

\* daily_return answering a zero Prev_Close with 0 instead of NULL.
daily_return_zero_on_zero(close, prev_close) ==
    IF ~prev_close.isNull /\ prev_close.num = 0 THEN Val(0, 1)
    ELSE Div(Sub(Val(close, 1), prev_close), prev_close)

\* Daily_Return = (Close - Prev_Close) / Prev_Close.
daily_return(close, prev_close) ==
    Div(Sub(Val(close, 1), prev_close), prev_close)

\* The "Add Calculated Columns" stage of the script: Prev_Close,
\* Daily_Return and Moving_Avg_5 on every row.
combined_df(d) ==
    {LET w == window_spec(d, r)
         k == RowNumber(w, r)
         prev == lag(w, k, "Close")
     IN  [Stock |-> r.Stock, Date |-> r.Date, Close |-> r.Close,
          Open |-> r.Open, Prev_Close |-> prev,
          Daily_Return |-> daily_return(r.Close, prev),
          Moving_Avg_5 |-> mean_rowsBetween(w, k, "Close", -4, 0)]
     : r \in d}

\* calculate_daily_return: Daily_Return recomputed from lag("Close") over the
\* global window_spec; the other columns are kept.
calculate_daily_return(d) ==
    {LET w == window_spec(d, r)
         k == RowNumber(w, r)
     IN  [r EXCEPT !.Daily_Return =
             daily_return(r.Close, lag(w, k, "Close"))]
     : r \in d}

\* calculate_moving_average: the column Moving_Avg_<column_name>_<num_points>
\* (field Moving_Avg here) over rowsBetween(-num_points + 1, 0).
calculate_moving_average(d, column_name, num_points) ==
    {LET w == window_spec(d, r)
         k == RowNumber(w, r)
     IN  [row |-> r,
          Moving_Avg |->
             mean_rowsBetween(w, k, column_name, -num_points + 1, 0)]
     : r \in d}

\* ------------------------------------------------------- period aggregator

\* first("Close") / last("Close") of a group: the Close of the first / last
\* row of the group that the aggregation meets, enc being the order in which
\* the rows reach it.  Spark documents both as non-deterministic: the result
\* depends on the order of the rows.
first(enc, g, column) ==
    LET i == CHOOSE i \in 1 .. Len(enc) :
                 enc[i] \in g /\ \A j \in 1 .. i - 1 : enc[j] \notin g
    IN  enc[i][column]

last(enc, g, column) ==
    LET i == CHOOSE i \in 1 .. Len(enc) :
                 enc[i] \in g /\ \A j \in i + 1 .. Len(enc) : enc[j] \notin g
    IN  enc[i][column]

\* ((Last_Close - First_Close) / First_Close) * 100.
return_rate(first_close, last_close) ==
    Mul(Div(Sub(Val(last_close, 1), Val(first_close, 1)), Val(first_close, 1)),
        Val(100, 1))

\* The grouping keys of the weekly, monthly and yearly tables.
WeekKey(r) == <<r.Stock, year(r.Date), weekofyear(r.Date)>>

MonthKey(r) == <<r.Stock, year(r.Date), month(r.Date)>>

YearKey(r) == <<r.Stock, year(r.Date)>>

\* calculate_return_rate: the three tables, one row per group.
calculate_return_rate(d, enc) ==
    [weekly_return |->
        {LET g == {r \in d : WeekKey(r) = key}
             f == first(enc, g, "Close")
             l == last(enc, g, "Close")
         IN  [Stock |-> key[1], Year |-> key[2], Week |-> key[3],
              First_Close |-> f, Last_Close |-> l,
              Weekly_Return_Rate |-> return_rate(f, l)]
         : key \in {WeekKey(r) : r \in d}},
     monthly_return |->
        {LET g == {r \in d : MonthKey(r) = key}
             f == first(enc, g, "Close")
             l == last(enc, g, "Close")
         IN  [Stock |-> key[1], Year |-> key[2], Month |-> key[3],
              First_Close |-> f, Last_Close |-> l,
              Monthly_Return_Rate |-> return_rate(f, l)]
         : key \in {MonthKey(r) : r \in d}},
     yearly_return |->
        {LET g == {r \in d : YearKey(r) = key}
             f == first(enc, g, "Close")
             l == last(enc, g, "Close")
         IN  [Stock |-> key[1], Year |-> key[2],
              First_Close |-> f, Last_Close |-> l,
              Yearly_Return_Rate |-> return_rate(f, l)]
         : key \in {YearKey(r) : r \in d}}]

RECURSIVE SumVals(_)
SumVals(S) ==
    IF S = {} THEN Val(0, 1)
    ELSE LET x == CHOOSE x \in S : TRUE
         IN  Add(x.v, SumVals(S \ {x}))

\* avg("Daily_Return") of a group: the mean of the non-null values, NULL
\* when there is none.
avg(g, column) ==
    LET S == {[k |-> <<r.Stock, r.Date>>, v |-> r[column]] :
                 r \in {x \in g : ~x[column].isNull}}
    IN  IF S = {} THEN Null
        ELSE Div(SumVals(S), Val(Cardinality(S), 1))

\* calculate_average_daily_return, on the output of the window stage.
calculate_average_daily_return(d) ==
    [weekly_avg_return |->
        {[Stock |-> key[1], Year |-> key[2], Week |-> key[3],
          Avg_Daily_Return_Weekly |->
              avg({r \in d : WeekKey(r) = key}, "Daily_Return")]
         : key \in {WeekKey(r) : r \in d}},
     monthly_avg_return |->
        {[Stock |-> key[1], Year |-> key[2], Month |-> key[3],
          Avg_Daily_Return_Monthly |->
              avg({r \in d : MonthKey(r) = key}, "Daily_Return")]
         : key \in {MonthKey(r) : r \in d}},
     yearly_avg_return |->
        {[Stock |-> key[1], Year |-> key[2],
          Avg_Daily_Return_Yearly |->
              avg({r \in d : YearKey(r) = key}, "Daily_Return")]
         : key \in {YearKey(r) : r \in d}}]

\* ------------------------------------------------- best-performer selector

\* start_year, start_month, _ = map(int, start_date.split("-")): a start
\* date is the triple of its three dash-separated fields.
start_year(start_date) == start_date[1]

start_month(start_date) == start_date[2]

\* filter_period with the else branch falling back to the default period
\* "month" instead of raising.
filter_period_default_month(d, start_date, period) ==
    IF period = "year" THEN
        [raised |-> "none",
         filtered_df |-> {r \in d : year(r.Date) = start_year(start_date)},
         group_by_cols |-> <<"Stock", "Year">>]
    ELSE
        [raised |-> "none",
         filtered_df |-> {r \in d : year(r.Date) = start_year(start_date)
                                    /\ month(r.Date) = start_month(start_date)},
         group_by_cols |-> <<"Stock", "Year", "Month">>]

\* The period branch of best_return_rate: the filtered rows and the grouping
\* columns, or the ValueError of the else branch.
filter_period(d, start_date, period) ==
    IF period = "month" THEN
        [raised |-> "none",
         filtered_df |-> {r \in d : year(r.Date) = start_year(start_date)
                                    /\ month(r.Date) = start_month(start_date)},
         group_by_cols |-> <<"Stock", "Year", "Month">>]
    ELSE IF period = "year" THEN
        [raised |-> "none",
         filtered_df |-> {r \in d : year(r.Date) = start_year(start_date)},
         group_by_cols |-> <<"Stock", "Year">>]
    ELSE
        [raised |-> "ValueError", filtered_df |-> {},
         group_by_cols |-> <<>>]

\* The key of a row under the chosen grouping columns.
GroupKey(r, group_by_cols) ==
    IF Len(group_by_cols) = 3 THEN MonthKey(r) ELSE YearKey(r)

\* filtered_df.groupBy(group_by_cols).agg(first, last).withColumn(Return_Rate).
return_rate_df(filtered_df, group_by_cols, enc) ==
    {LET g == {r \in filtered_df : GroupKey(r, group_by_cols) = key}
         f == first(enc, g, "Close")
         l == last(enc, g, "Close")
     IN  IF Len(group_by_cols) = 3
         THEN [Stock |-> key[1], Year |-> key[2], Month |-> key[3],
               First_Close |-> f, Last_Close |-> l,
               Return_Rate |-> return_rate(f, l)]
         ELSE [Stock |-> key[1], Year |-> key[2],
               First_Close |-> f, Last_Close |-> l,
               Return_Rate |-> return_rate(f, l)]
     : key \in {GroupKey(r, group_by_cols) : r \in filtered_df}}

\* orderBy_desc_limit_1 answering an empty table with a default row of
\* return rate 0.
orderBy_desc_limit_1_default_row(t) ==
    IF t = {}
    THEN {{[Stock |-> "", Year |-> 0, First_Close |-> 0, Last_Close |-> 0,
            Return_Rate |-> Val(0, 1)]}}
    ELSE LET nonnull == {r \in t : ~r.Return_Rate.isNull}
             top == IF nonnull = {} THEN t
                    ELSE {r \in nonnull :
                            \A x \in nonnull : Geq(r.Return_Rate, x.Return_Rate)}
         IN  {{r} : r \in top}

\* orderBy(col("Return_Rate").desc()).limit(1): the tables the call may
\* return.  Descending order puts NULL last; rows that tie come in any
\* order; limit(1) of an empty table is the empty table.
orderBy_desc_limit_1(t) ==
    IF t = {} THEN {{}}
    ELSE LET nonnull == {r \in t : ~r.Return_Rate.isNull}
             top == IF nonnull = {} THEN t
                    ELSE {r \in nonnull :
                            \A x \in nonnull : Geq(r.Return_Rate, x.Return_Rate)}
         IN  {{r} : r \in top}

\* best_return_rate: the results the call may produce, enc being the order
\* in which the filtered rows reach the aggregation.
best_return_rate(d, start_date, period, enc) ==
    LET f == filter_period(d, start_date, period)
    IN  IF f.raised # "none"
        THEN {[raised |-> f.raised]}
        ELSE {[raised |-> "none", best_stock |-> b] :
                 b \in orderBy_desc_limit_1(
                          return_rate_df(f.filtered_df, f.group_by_cols, enc))}

\* ------------------------------------------------------ correlation engine

\* stock1_data.join(stock2_data, on="Date", how="inner"): one row per pair of
\* rows of the two symbols that share a Date.
joined_data(d, stock1, stock2, column) ==
    {[Date |-> r1.Date, x |-> r1[column], y |-> r2[column]] :
        <<r1, r2>> \in {p \in {x \in d : x.Stock = stock1}
                              \X {x \in d : x.Stock = stock2} :
                            p[1].Date = p[2].Date}}

RECURSIVE Moments(_)
\* The sums of DataFrame.stat.corr's pass over the joined rows.
Moments(j) ==
    IF j = {} THEN [n |-> 0, sx |-> 0, sy |-> 0, sxx |-> 0, syy |-> 0, sxy |-> 0]
    ELSE LET r == CHOOSE r \in j : TRUE
             m == Moments(j \ {r})
         IN  [n |-> m.n + 1, sx |-> m.sx + r.x, sy |-> m.sy + r.y,
              sxx |-> m.sxx + r.x * r.x, syy |-> m.syy + r.y * r.y,
              sxy |-> m.sxy + r.x * r.y]

Sign(x) == IF x > 0 THEN 1 ELSE IF x < 0 THEN -1 ELSE 0

\* stat_corr dividing the co-moment by the first column's moment alone
\* (Ck / MkX, the regression slope).
stat_corr_slope(j) ==
    LET m   == Moments(j)
        ck  == m.n * m.sxy - m.sx * m.sy
        mkx == m.n * m.sxx - m.sx * m.sx
        mky == m.n * m.syy - m.sy * m.sy
    IN  IF mkx * mky = 0
        THEN [isNaN |-> TRUE, sign |-> 0, square |-> Val(0, 1)]
        ELSE [isNaN |-> FALSE, sign |-> Sign(ck),
              square |-> Val(ck * ck, mkx * mkx)]

\* DataFrame.stat.corr (Pearson): Ck / sqrt(MkX * MkY), a double.  The
\* quotient 0.0 / 0.0 of an empty, one-row or zero-variance sample is NaN.
\* A coefficient is held as its sign and its square.
stat_corr(j) ==
    LET m   == Moments(j)
        ck  == m.n * m.sxy - m.sx * m.sy
        mkx == m.n * m.sxx - m.sx * m.sx
        mky == m.n * m.syy - m.sy * m.sy
    IN  IF mkx * mky = 0
        THEN [isNaN |-> TRUE, sign |-> 0, square |-> Val(0, 1)]
        ELSE [isNaN |-> FALSE, sign |-> Sign(ck),
              square |-> Val(ck * ck, mkx * mky)]

\* calculate_correlation_between_stocks.  With stock1 = stock2 both joined
\* columns carry the alias <column>_<stock> and stat.corr cannot resolve the
\* name: the call raises AnalysisException.
calculate_correlation_between_stocks(d, stock1, stock2, column) ==
    IF stock1 = stock2
    THEN [raised |-> "AnalysisException"]
    ELSE [raised |-> "none",
          correlation |-> stat_corr(joined_data(d, stock1, stock2, column))]

\* ---------------------------------------------------------------- actions

\* Start dates: "2024-01-15", "2024-12-01", "2023-06-01".
StartDates == {<<2024, 1, 15>>, <<2024, 12, 1>>, <<2023, 6, 1>>}

Periods == {"month", "year", "quarter", "week"}

\* Open values of the inputs.
Opens == {1, 2}

\* <<Close, Open>> of the rows of the correlation inputs.
CorrValues == {<<0, 1>>, <<1, 2>>, <<2, 1>>}

\* One analysis per run: the script calls each function once on the
\* combined dataset, and Streamlit reruns app.py from the top on every
\* interaction.  op names the call that was made, "none" before it.

\* The script's window stage on the combined dataset.
WindowStage ==
    /\ op = "none"
    /\ op' = "window_stage"
    /\ args' = <<>>
    /\ out' = combined_df(df)
    /\ UNCHANGED df

Call_calculate_daily_return ==
    /\ op = "none"
    /\ op' = "calculate_daily_return"
    /\ args' = <<>>
    /\ out' = calculate_daily_return(combined_df(df))
    /\ UNCHANGED df

Call_calculate_moving_average ==
    /\ op = "none"
    /\ \E column_name \in Columns, num_points \in 1 .. MaxPoints :
        /\ op' = "calculate_moving_average"
        /\ args' = [column_name |-> column_name, num_points |-> num_points]
        /\ out' = calculate_moving_average(combined_df(df), column_name,
                                           num_points)
    /\ UNCHANGED df

Call_calculate_return_rate ==
    /\ op = "none"
    /\ \E enc \in Perms(df) :
        /\ op' = "calculate_return_rate"
        /\ args' = <<>>
        /\ out' = calculate_return_rate(df, enc)
    /\ UNCHANGED df

Call_calculate_average_daily_return ==
    /\ op = "none"
    /\ op' = "calculate_average_daily_return"
    /\ args' = <<>>
    /\ out' = calculate_average_daily_return(combined_df(df))
    /\ UNCHANGED df

Call_best_return_rate ==
    /\ op = "none"
    /\ \E start_date \in StartDates, period \in Periods :
        \E enc \in Perms(filter_period(df, start_date, period).filtered_df) :
            /\ op' = "best_return_rate"
            /\ args' = [start_date |-> start_date, period |-> period]
            /\ out' \in best_return_rate(df, start_date, period, enc)
    /\ UNCHANGED df

Call_calculate_correlation_between_stocks ==
    /\ op = "none"
    /\ \E stock1 \in Stocks, stock2 \in Stocks, column \in Columns :
        /\ op' = "calculate_correlation_between_stocks"
        /\ args' = [stock1 |-> stock1, stock2 |-> stock2, column |-> column]
        /\ out' = calculate_correlation_between_stocks(df, stock1, stock2,
                                                       column)
    /\ UNCHANGED df

\* --------------------------------------------------------- specifications

NoCall ==
    /\ op = "none"
    /\ args = <<>>
    /\ out = <<>>

\* The window aggregator on a dataset of one trading week.
InitWindow ==
    \E ks \in KeySets(WindowDates) :
        \E f \in [ks -> Prices \X Opens] :
            /\ df = Dataset(ks, f)
            /\ NoCall

NextWindow ==
    \/ WindowStage
    \/ Call_calculate_daily_return
    \/ Call_calculate_moving_average

SpecWindow == InitWindow /\ [][NextWindow]_vars

\* The period aggregator and the best-performer selector.
InitPeriod ==
    \E ks \in KeySets(PeriodDates) :
        \E f \in [ks -> Prices \X {1}] :
            /\ df = Dataset(ks, f)
            /\ NoCall

NextPeriod ==
    \/ Call_calculate_return_rate
    \/ Call_calculate_average_daily_return
    \/ Call_best_return_rate

SpecPeriod == InitPeriod /\ [][NextPeriod]_vars

\* The correlation engine on two series of up to MaxRows dates each.
InitCorr ==
    \E ks \in KeySetsPerStock(CorrDates) :
        \E f \in [ks -> CorrValues] :
            /\ df = Dataset(ks, f)
            /\ NoCall

NextCorr == Call_calculate_correlation_between_stocks

SpecCorr == InitCorr /\ [][NextCorr]_vars

\* ----------------------------------------------------------------- claims

\* The row of a non-empty group with the earliest / latest Date.
EarliestRow(g) == CHOOSE r \in g : \A x \in g : r.Date <= x.Date

LatestRow(g) == CHOOSE r \in g : \A x \in g : r.Date >= x.Date

\* (last - first) / first * 100 of two closes, first # 0.
PercentChange(first_close, last_close) ==
    Val((last_close - first_close) * 100, first_close)

\* A row t of a return-rate table holds the chronological first and last
\* close of its group g and the return rate computed from the two.
ChronologicalRow(t, g, rate) ==
    /\ g # {}
    /\ t.First_Close = EarliestRow(g).Close
    /\ t.Last_Close = LatestRow(g).Close
    /\ t.First_Close # 0 => rate = PercentChange(t.First_Close, t.Last_Close)

\* The rows of df in the period a best_return_rate call asks for.
InPeriod(r, start_date, period) ==
    /\ year(r.Date) = start_date[1]
    /\ period = "month" => month(r.Date) = start_date[2]

PeriodRows(start_date, period) ==
    {r \in df : InPeriod(r, start_date, period)}

BestCall == op = "best_return_rate"

ValidPeriod == args.period \in {"month", "year"}

\* C1: in every group of the weekly, monthly and yearly tables of
\* calculate_return_rate and of the table of best_return_rate, First_Close is
\* the Close of the row with the earliest Date of the group, Last_Close the
\* Close of the row with the latest Date, whatever the order in which the
\* rows are stored, and the return rate is (Last_Close - First_Close) /
\* First_Close * 100 of those two values.
C1_FirstLastChronological ==
    /\ op = "calculate_return_rate" =>
        /\ \A t \in out.weekly_return :
              ChronologicalRow(t,
                  {r \in df : WeekKey(r) = <<t.Stock, t.Year, t.Week>>},
                  t.Weekly_Return_Rate)
        /\ \A t \in out.monthly_return :
              ChronologicalRow(t,
                  {r \in df : MonthKey(r) = <<t.Stock, t.Year, t.Month>>},
                  t.Monthly_Return_Rate)
        /\ \A t \in out.yearly_return :
              ChronologicalRow(t,
                  {r \in df : YearKey(r) = <<t.Stock, t.Year>>},
                  t.Yearly_Return_Rate)
    /\ (BestCall /\ ValidPeriod) =>
        \A t \in out.best_stock :
            ChronologicalRow(t,
                {r \in PeriodRows(args.start_date, args.period) :
                    r.Stock = t.Stock},
                t.Return_Rate)

\* The return rate of symbol s over the rows of the period: from its
\* chronologically first close to its last.
PeriodReturnRate(s, start_date, period) ==
    LET g == {r \in PeriodRows(start_date, period) : r.Stock = s}
    IN  return_rate(EarliestRow(g).Close, LatestRow(g).Close)

SymbolsInPeriod(start_date, period) ==
    {r.Stock : r \in PeriodRows(start_date, period)}

\* C2: for period "month" or "year" best_return_rate uses only the rows of
\* the calendar year (and month) of the start date and returns at most one
\* row; when a symbol has rows in the period, the returned row is a symbol of
\* the dataset whose period return rate is at least that of every other
\* symbol in the period.
C2_BestIsMaximal ==
    (BestCall /\ ValidPeriod) =>
        LET syms == SymbolsInPeriod(args.start_date, args.period)
            rate(s) == PeriodReturnRate(s, args.start_date, args.period)
        IN  /\ out.raised = "none"
            /\ Cardinality(out.best_stock) <= 1
            /\ \A t \in out.best_stock :
                  /\ t.Stock \in syms
                  /\ t.Year = args.start_date[1]
                  /\ args.period = "month" => t.Month = args.start_date[2]
                  /\ \A s \in syms \ {t.Stock} :
                        ~rate(s).isNull =>
                            /\ ~rate(t.Stock).isNull
                            /\ Geq(rate(t.Stock), rate(s))
            /\ syms # {} => out.best_stock # {}

\* C3: for every period other than "month" and "year" best_return_rate
\* raises ValueError, whatever the dataset and the start date: the call
\* yields no table and no return rate, and no default period is used.
C3_InvalidPeriodRaises ==
    (BestCall /\ ~ValidPeriod) => out = [raised |-> "ValueError"]

\* C3 witness: period "quarter" asked of a dataset that has rows in the
\* month of the start date.
C3_Witness ==
    /\ BestCall
    /\ args.period = "quarter"
    /\ PeriodRows(args.start_date, "month") # {}
    /\ out.raised = "ValueError"

\* C4: when no row falls in the requested month or year, best_return_rate
\* returns the empty table and raises nothing; the table is empty only then,
\* so the empty result differs from a row whose return rate is a computed 0.
C4_EmptyPeriodEmptyResult ==
    (BestCall /\ ValidPeriod) =>
        /\ out.raised = "none"
        /\ out.best_stock = {} <=>
              PeriodRows(args.start_date, args.period) = {}
        /\ \A t \in out.best_stock : t.Stock \in {r.Stock : r \in df}

\* C4 witness: a non-empty dataset with no row in the requested period.
C4_Witness ==
    /\ BestCall
    /\ ValidPeriod
    /\ df # {}
    /\ PeriodRows(args.start_date, args.period) = {}
    /\ out = [raised |-> "none", best_stock |-> {}]

\* C10: in the weekly tables of calculate_return_rate and
\* calculate_average_daily_return no (Stock, Year, Week) group holds rows of
\* two different Monday-to-Sunday weeks.
C10_WeekGroupsAreCalendarWeeks ==
    LET OneWeek(t) ==
            \A r1, r2 \in {r \in df : WeekKey(r) = <<t.Stock, t.Year, t.Week>>} :
                MondayOf(r1.Date) = MondayOf(r2.Date)
    IN  /\ op = "calculate_return_rate" =>
            \A t \in out.weekly_return : OneWeek(t)
        /\ op = "calculate_average_daily_return" =>
            \A t \in out.weekly_avg_return : OneWeek(t)

\* The input row of an output row of the window stage.
Raw(t) == [Stock |-> t.Stock, Date |-> t.Date, Close |-> t.Close,
           Open |-> t.Open]

\* The rows of r's symbol dated before r, and the latest of them.
Earlier(r) == {x \in df : x.Stock = r.Stock /\ x.Date < r.Date}

Preceding(r) == LatestRow(Earlier(r))

WindowCall == op \in {"window_stage", "calculate_daily_return"}

\* C5: after the window stage and after calculate_daily_return, the row of a
\* symbol with the earliest Date has Prev_Close and Daily_Return NULL; every
\* other row has Prev_Close = the Close of the symbol's row with the
\* immediately preceding Date and Daily_Return = (Close - Prev_Close) /
\* Prev_Close, which is NULL when Prev_Close is 0.
C5_PrevCloseAndDailyReturn ==
    WindowCall =>
        /\ {Raw(t) : t \in out} = df
        /\ Cardinality(out) = Cardinality(df)
        /\ \A t \in out :
              IF Earlier(t) = {}
              THEN t.Prev_Close = Null /\ t.Daily_Return = Null
              ELSE LET p == Preceding(t).Close
                   IN  /\ t.Prev_Close = Val(p, 1)
                       /\ t.Daily_Return =
                             IF p = 0 THEN Null ELSE Val(t.Close - p, p)

\* C5 witness: calculate_daily_return has produced a first row, a row whose
\* previous close is 0 and a row with a non-zero return.
C5_Witness ==
    /\ op = "calculate_daily_return"
    /\ \E t1, t2, t3 \in out :
          /\ t1.Prev_Close = Null
          /\ t2.Prev_Close = Val(0, 1) /\ t2.Close > 0 /\ t2.Daily_Return = Null
          /\ ~t3.Daily_Return.isNull /\ t3.Daily_Return.num # 0

RECURSIVE SumOver(_, _)
\* The sum of a column over a set of rows.
SumOver(S, column) ==
    IF S = {} THEN 0
    ELSE LET x == CHOOSE x \in S : TRUE
         IN  x[column] + SumOver(S \ {x}, column)

\* The rows of r's symbol up to r, and the last n of them.
UpTo(r) == {x \in df : x.Stock = r.Stock /\ x.Date <= r.Date}

Trailing(r, n) ==
    {x \in UpTo(r) : Cardinality({y \in UpTo(r) : y.Date > x.Date}) < n}

\* C6: calculate_moving_average with window length N writes, on the k-th row
\* of a symbol in Date order, the mean of the field over the min(k, N) rows
\* of the symbol that end at this row; for N = 1 it is the field's own value.
C6_MovingAverageTrailingMean ==
    op = "calculate_moving_average" =>
        /\ {Raw(t.row) : t \in out} = df
        /\ \A t \in out :
              LET N == args.num_points
                  k == Cardinality(UpTo(t.row))
                  W == Trailing(t.row, N)
              IN  /\ Cardinality(W) = Min(k, N)
                  /\ t.Moving_Avg =
                        Val(SumOver(W, args.column_name), Min(k, N))
                  /\ N = 1 => t.Moving_Avg = Val(t.row[args.column_name], 1)

\* C6 witness: a window of 2 on the third row of a symbol whose first row
\* holds a different value of the field than the two rows averaged.
C6_Witness ==
    /\ op = "calculate_moving_average"
    /\ args.num_points = 2
    /\ \E t \in out :
          /\ Cardinality(UpTo(t.row)) = 3
          /\ \E x \in UpTo(t.row) \ Trailing(t.row, 2) :
                x[args.column_name] > 0
          /\ t.Moving_Avg.den = 2

\* The window operation of the call, as a function of the input dataset.
WindowResult(d) ==
    IF op = "window_stage" THEN combined_df(d)
    ELSE IF op = "calculate_daily_return"
         THEN calculate_daily_return(combined_df(d))
    ELSE calculate_moving_average(combined_df(d), args.column_name,
                                  args.num_points)

StockOf(t) == IF op = "calculate_moving_average" THEN t.row.Stock ELSE t.Stock

\* C7: the Prev_Close, Daily_Return and moving-average values of the rows of
\* a symbol are those the operation computes from the rows of that symbol
\* alone: the rows of the other symbols do not enter them.
C7_WindowsAreSymbolScoped ==
    op \in {"window_stage", "calculate_daily_return",
            "calculate_moving_average"} =>
        \A s \in Stocks :
            {t \in out : StockOf(t) = s}
                = WindowResult({r \in df : r.Stock = s})

\* C7 witness: the window stage on a dataset in which a row of MSFT is dated
\* between two rows of AAPL.
C7_Witness ==
    /\ op = "window_stage"
    /\ \E a1, a2, m \in out :
          /\ a1.Stock = "AAPL" /\ a2.Stock = "AAPL" /\ m.Stock = "MSFT"
          /\ a1.Date < m.Date /\ m.Date < a2.Date
          /\ a2.Prev_Close = Val(a1.Close, 1)
          /\ m.Close # a1.Close

CorrCall == op = "calculate_correlation_between_stocks"

\* The dates on which both symbols of the call have a row, and the values of
\* the column of a symbol on those dates.
AlignedDates ==
    {r.Date : r \in {x \in df : x.Stock = args.stock1}}
        \cap {r.Date : r \in {x \in df : x.Stock = args.stock2}}

AlignedValues(s) ==
    {r[args.column] : r \in {x \in df : x.Stock = s /\ x.Date \in AlignedDates}}

\* Fewer than 2 aligned dates, or a series that is constant over them.
Degenerate ==
    \/ Cardinality(AlignedDates) < 2
    \/ Cardinality(AlignedValues(args.stock1)) < 2
    \/ Cardinality(AlignedValues(args.stock2)) < 2

\* The distinguished result of a correlation that cannot be computed.
Undefined == [isNaN |-> FALSE, sign |-> 0, square |-> Null]

\* C8: calculate_correlation_between_stocks on two symbols returns a
\* coefficient in [-1, 1] or the distinguished undefined result; with fewer
\* than 2 aligned dates or zero variance in either series it returns the
\* undefined result, never 0 and never a bare not-a-number.
C8_CoefficientOrUndefined ==
    (CorrCall /\ args.stock1 # args.stock2) =>
        /\ out.raised = "none"
        /\ IF Degenerate
           THEN out.correlation = Undefined
           ELSE /\ ~out.correlation.isNaN
                /\ ~out.correlation.square.isNull
                /\ Geq(Val(1, 1), out.correlation.square)

\* C9: the correlation of (A, B) and of (B, A) on a column are the same
\* outcome: the same coefficient, or both not computable.
C9_CorrelationSymmetric ==
    CorrCall =>
        out = calculate_correlation_between_stocks(df, args.stock2,
                                                   args.stock1, args.column)

\* C9 witness: a call on two different symbols with three aligned dates
\* that returns a coefficient strictly between 0 and 1 in absolute value.
C9_Witness ==
    /\ CorrCall
    /\ args.stock1 # args.stock2
    /\ out.raised = "none"
    /\ ~out.correlation.isNaN
    /\ out.correlation.sign # 0
    /\ out.correlation.square # Val(1, 1)
    /\ Cardinality(AlignedDates) = 3

\* ------------------------------------------------------------ determinism

\* The tables calculate_return_rate may return on the current dataset, one
\* per order in which the rows can reach the aggregation.
ReturnRateOutcomes == {calculate_return_rate(df, enc) : enc \in Perms(df)}

\* The results best_return_rate may return on the current dataset for the
\* start date and period of the recorded call.
BestOutcomes ==
    UNION {best_return_rate(df, args.start_date, args.period, enc) :
             enc \in Perms(filter_period(df, args.start_date,
                                         args.period).filtered_df)}

\* C11: calculate_return_rate, and best_return_rate for a given start date
\* and period, return one and the same result on a dataset holding a given
\* set of rows, however the rows are stored: the result of the recorded
\* call is the only result the call can produce on that dataset.
C11_Deterministic ==
    /\ op = "calculate_return_rate" => ReturnRateOutcomes = {out}
    /\ BestCall => BestOutcomes = {out}

\* --------------------------------------------------- period between points

\* df.orderBy("Date") / Window.orderBy("Date"): the sequences of all rows of
\* d in Date order; the window has no partition, and rows of one Date come
\* in any order.
RECURSIVE orderBy_Date(_)
orderBy_Date(d) ==
    IF d = {} THEN {<<>>}
    ELSE LET earliest == {r \in d : \A x \in d : r.Date <= x.Date}
         IN  UNION {{<<r>> \o t : t \in orderBy_Date(d \ {r})} :
                       r \in earliest}

\* Date_Diff of the i-th row of w: datediff(Date, lag("Date")), NULL on the
\* first row of the window.
Date_Diff(w, i) ==
    IF i = 1 THEN [isNull |-> TRUE, days |-> 0]
    ELSE [isNull |-> FALSE, days |-> w[i].Date - w[i - 1].Date]

\* groupBy("Date_Diff").count(): one row per value of Date_Diff, NULL being
\* a group of its own.
Date_Diff_count(w) ==
    {[Date_Diff |-> v,
      count |-> Cardinality({i \in DOMAIN w : Date_Diff(w, i) = v})] :
        v \in {Date_Diff(w, i) : i \in DOMAIN w}}

\* deduce_period: the results the call may produce, w being the window
\* order. first() of an empty table is None, and subscripting it raises;
\* rows of equal count come in any order.
deduce_period(d, w) ==
    LET t == Date_Diff_count(w)
    IN  IF t = {} THEN {[raised |-> "TypeError"]}
        ELSE {[raised |-> "none", period |-> r.Date_Diff] :
                 r \in {x \in t : \A y \in t : x.count >= y.count}}

Call_deduce_period ==
    /\ op = "none"
    /\ \E w \in orderBy_Date(df) :
        /\ op' = "deduce_period"
        /\ args' = <<>>
        /\ out' \in deduce_period(df, w)
    /\ UNCHANGED df

\* deduce_period on two series of up to MaxRows dates each.
InitDeduce ==
    \E ks \in KeySetsPerStock(CorrDates) :
        \E f \in [ks -> {<<1, 1>>}] :
            /\ df = Dataset(ks, f)
            /\ NoCall

NextDeduce == Call_deduce_period

SpecDeduce == InitDeduce /\ [][NextDeduce]_vars

DeduceCall == op = "deduce_period"

\* The observation dates of symbol s.
DatesOf(s) == {r.Date : r \in {x \in df : x.Stock = s}}

\* The gaps in days between a row's Date and the Date of the preceding
\* observation of the same symbol, one element per such row.
SymbolGaps ==
    {[Stock |-> r.Stock, Date |-> r.Date,
      gap |-> r.Date - Preceding(r).Date] :
        r \in {x \in df : Earlier(x) # {}}}

\* The gaps no other gap is more frequent than.
MostFrequentGaps ==
    {g.gap : g \in {x \in SymbolGaps :
        \A y \in SymbolGaps :
            Cardinality({z \in SymbolGaps : z.gap = x.gap})
                >= Cardinality({z \in SymbolGaps : z.gap = y.gap})}}

\* Several symbols observed on the same dates, at least two of them.
SharedDates ==
    /\ \A s \in Stocks : DatesOf(s) = {r.Date : r \in df}
    /\ Cardinality({r.Date : r \in df}) >= 2

\* C12: on a dataset of several symbols observed on the same dates,
\* deduce_period returns a number of days that is a most frequent gap
\* between consecutive observation dates of a symbol, not the 0 between
\* rows of two symbols on one date and not the null of a first row.
C12_PeriodIsSymbolGap ==
    (DeduceCall /\ SharedDates) =>
        /\ out.raised = "none"
        /\ ~out.period.isNull
        /\ out.period.days \in MostFrequentGaps

====
